---- MODULE Spec2Model ----
(***************************************************************************)
(* Model of rocketpool/node/stake-minipools.go: the task that stakes the   *)
(* node's prelaunch minipools at an interval.                              *)
(*                                                                         *)
(* Threads: the caller of startStakePrelaunchMinipools (pcStart), the      *)
(* goroutine it launches (pcLoop), and one goroutine per minipool started  *)
(* by errgroup.Group.Go inside getPrelaunchMinipools (q).                  *)
(* A minipool is identified by its position in the list returned by        *)
(* GetNodeMinipoolAddresses (1..Len(ledger)).                              *)
(*                                                                         *)
(* A second, independent part models Client.InstallService of              *)
(* shared/services/rocketpool/client.go: its main flow (instPc), the       *)
(* goroutine that scans the command's stderr (scanPc) and the command.     *)
(***************************************************************************)
EXTENDS Naturals, Sequences, FiniteSets

VARIABLES
    ledger,       \* on-chain statuses of the node's minipools, in address-list order
    pcStart,      \* position of the caller inside startStakePrelaunchMinipools
    startResult,  \* value returned by startStakePrelaunchMinipools (Pending until then)
    callerCalls,  \* collaborator calls the caller's thread has waited in
    pcLoop,       \* position of the goroutine of lines 35-42
    gate,         \* readiness calls made since the last iteration boundary
    addresses,    \* getPrelaunchMinipools: addresses (line 93)
    minipools,    \* getPrelaunchMinipools: minipools bound so far (lines 99-106)
    q,            \* per minipool: the goroutine started by wg.Go (lines 115-119)
    statuses,     \* getPrelaunchMinipools: statuses (line 110)
    wgErr,        \* errgroup.Group: the error kept by its sync.Once
    wgCount,      \* errgroup.Group: its WaitGroup counter
    writers,      \* per slot of statuses: the goroutines that wrote it, in order
    recorded,     \* errors handed to the errgroup by its goroutines, in order
    ret,          \* values returned by getPrelaunchMinipools (list, error)
    di,           \* stakePrelaunchMinipools: index of the range loop of line 77
    staking,      \* minipools whose stakeMinipool call is in progress
    attempted,    \* stakeMinipool calls that returned in this iteration, with results
    failures,     \* errors of the readiness and ledger calls of this iteration
    cycleErr,     \* value returned by stakePrelaunchMinipools in this iteration
    log,          \* lines written to the log in this iteration
    prev,         \* what the previous iteration returned and staked (history)
    changed,      \* the ledger changed since getPrelaunchMinipools last returned
    verbose,      \* InstallService: its verbose argument
    exitErr,      \* the install command ends with a non-zero status
    script,       \* lines the install command has still to write to stderr
    cmdState,     \* the install command: "notStarted", "running", "exited"
    stderrPipe,   \* lines written to stderr and not yet scanned
    written,      \* every line the command wrote to stderr, in order
    scanPc,       \* position of the goroutine of client.go lines 153-162
    scanTok,      \* the token of its scanner
    errMessage,   \* InstallService: errMessage (client.go line 152)
    printed,      \* lines the goroutine printed in verbose mode
    instPc,       \* position of the main flow of InstallService
    instResult,   \* value returned by InstallService (Pending until then)
    readEarly     \* errMessage was read while the goroutine had not ended

\* The stake task, the history of its iterations, and InstallService.
stakeVars == <<ledger, pcStart, startResult, callerCalls, pcLoop, gate, addresses,
               minipools, q, statuses, wgErr, wgCount, writers, recorded, ret, di,
               staking, attempted, failures, cycleErr, log>>
histVars == <<prev, changed>>
installVars == <<verbose, exitErr, script, cmdState, stderrPipe, written, scanPc,
                 scanTok, errMessage, printed, instPc, instResult, readEarly>>
extVars == <<histVars, installVars>>

vars == <<stakeVars, histVars, installVars>>

startVars == <<pcStart, startResult, callerCalls>>
aggVars   == <<addresses, minipools, q, statuses, wgErr, wgCount, writers,
               recorded, ret>>
actVars   == <<di, staking, attempted>>

(***************************************************************************)
(* Bounds and value sets                                                   *)
(***************************************************************************)
MaxMinipools == 3

Initialized == "Initialized"
Prelaunch   == "Prelaunch"
Staking     == "Staking"

\* types.MinipoolStatus values a minipool of the node can report.
MinipoolStatus == {Initialized, Prelaunch, Staking}

\* Zero value of types.MinipoolStatus, as left by make() in an unwritten slot.
ZeroStatus == Initialized

\* The nil error; an error is a non-empty tuple naming the call that produced it.
Nil == <<>>
Err(call) == <<call>>
ErrAt(call, i) == <<call, i>>

\* A call that returns (value, error): it succeeds or fails with its own error.
Results(e) == {Nil, e}

\* Outcomes of the action on one minipool: ok or error.
stakeMinipoolResults == {Nil, Err("stakeMinipool")}

Range(s) == {s[k] : k \in 1..Len(s)}
Indices(n) == [k \in 1..n |-> k]

\* Placeholder for the result of a call that has not returned.
Pending == <<"pending">>

NoQuery == [pc |-> "none", err |-> Nil]
NoPrev == [ok |-> FALSE, minipools |-> <<>>, staked |-> {}, changed |-> FALSE]
NoWriters == [i \in 1..MaxMinipools |-> <<>>]
NoRet == [returned |-> FALSE, minipools |-> <<>>, err |-> Nil]

(***************************************************************************)
(* Initial state: the caller is about to call startStakePrelaunchMinipools *)
(***************************************************************************)
Ledgers == UNION {[1..n -> MinipoolStatus] : n \in 0..MaxMinipools}

\* The stake task before startStakePrelaunchMinipools made its first call.
InitStake ==
    /\ pcStart = "WaitNodeRegistered"
    /\ startResult = Pending
    /\ callerCalls = {}
    /\ pcLoop = "idle"
    /\ gate = {}
    /\ addresses = <<>>
    /\ minipools = <<>>
    /\ q = [i \in 1..MaxMinipools |-> NoQuery]
    /\ statuses = <<>>
    /\ wgErr = Nil
    /\ wgCount = 0
    /\ writers = NoWriters
    /\ recorded = <<>>
    /\ ret = NoRet
    /\ di = 0
    /\ staking = {}
    /\ attempted = <<>>
    /\ failures = {}
    /\ cycleErr = Nil
    /\ log = <<>>
    /\ prev = NoPrev
    /\ changed = FALSE

\* InstallService with the given arguments and command, in the given position.
InitInstall(pc, v, e, lines) ==
    /\ verbose = v
    /\ exitErr = e
    /\ script = lines
    /\ cmdState = "notStarted"
    /\ stderrPipe = <<>>
    /\ written = <<>>
    /\ scanPc = "idle"
    /\ scanTok = ""
    /\ errMessage = ""
    /\ printed = <<>>
    /\ instPc = pc
    /\ instResult = Pending
    /\ readEarly = FALSE

\* The node process: the stake task over some ledger; InstallService, which
\* belongs to the command-line client, is not called.
Init ==
    /\ ledger \in Ledgers
    /\ InitStake
    /\ InitInstall("notCalled", FALSE, FALSE, <<>>)

(***************************************************************************)
(* startStakePrelaunchMinipools, on the caller's thread (lines 25-47)      *)
(***************************************************************************)

\* Variant of startFail: the error is kept but the function goes on to the
\* go statement.
startFailLaunch(err) ==
    /\ startResult' = err
    /\ pcStart' = "go"

\* `return err` of lines 28, 30 and 32: the goroutine is never launched.
startFail(err) ==
    /\ startResult' = err
    /\ pcStart' = "returned"

\* Line 28: the caller waits in services.WaitNodeRegistered until it returns.
startWaitNodeRegistered ==
    /\ pcStart = "WaitNodeRegistered"
    /\ callerCalls' = callerCalls \cup {"WaitNodeRegistered"}
    /\ gate' = gate \cup {"WaitNodeRegistered"}
    /\ \E err \in Results(Err("WaitNodeRegistered")) :
          IF err # Nil
            THEN startFail(err)
            ELSE pcStart' = "GetAccountManager" /\ startResult' = startResult
    /\ UNCHANGED <<extVars, ledger, pcLoop, aggVars, actVars, failures, cycleErr, log>>

\* Lines 29-30.
startGetAccountManager ==
    /\ pcStart = "GetAccountManager"
    /\ callerCalls' = callerCalls \cup {"GetAccountManager"}
    /\ \E err \in Results(Err("GetAccountManager")) :
          IF err # Nil
            THEN startFail(err)
            ELSE pcStart' = "GetRocketPool" /\ startResult' = startResult
    /\ UNCHANGED <<extVars, ledger, pcLoop, gate, aggVars, actVars, failures, cycleErr, log>>

\* Lines 31-32.
startGetRocketPool ==
    /\ pcStart = "GetRocketPool"
    /\ callerCalls' = callerCalls \cup {"GetRocketPool"}
    /\ \E err \in Results(Err("GetRocketPool")) :
          IF err # Nil
            THEN startFail(err)
            ELSE pcStart' = "go" /\ startResult' = startResult
    /\ UNCHANGED <<extVars, ledger, pcLoop, gate, aggVars, actVars, failures, cycleErr, log>>

\* Line 35: the go statement starts the goroutine, which enters its for loop
\* and is about to call stakePrelaunchMinipools (line 37).
startGo ==
    /\ pcStart = "go"
    /\ pcLoop = "idle"
    /\ pcStart' = "return"
    /\ pcLoop' = "WaitClientSynced"
    /\ UNCHANGED <<extVars, ledger, startResult, callerCalls, gate, aggVars, actVars,
                   failures, cycleErr, log>>

\* Variant of startReturn: the caller waits for the first cycle to end.
startReturnAfterCycle ==
    /\ pcStart = "return"
    /\ pcLoop = "Sleep"
    /\ pcStart' = "returned"
    /\ startResult' = Nil
    /\ UNCHANGED <<extVars, ledger, callerCalls, pcLoop, gate, aggVars, actVars,
                   failures, cycleErr, log>>

\* Line 45: return nil, whatever the goroutine is doing.
startReturn ==
    /\ pcStart = "return"
    /\ pcStart' = "returned"
    /\ startResult' = Nil
    /\ UNCHANGED <<extVars, ledger, callerCalls, pcLoop, gate, aggVars, actVars,
                   failures, cycleErr, log>>

(***************************************************************************)
(* The goroutine of lines 35-42 and stakePrelaunchMinipools (lines 51-86)  *)
(***************************************************************************)

\* Variant of cycleReturn: an error ends the goroutine instead of being logged.
cycleReturnExit(err) ==
    /\ cycleErr' = err
    /\ log' = log
    /\ pcLoop' = IF err # Nil THEN "exited" ELSE "Sleep"

\* Variant of cycleReturn: the error is dropped without a log line.
cycleReturnSilent(err) ==
    /\ cycleErr' = err
    /\ log' = log
    /\ pcLoop' = "Sleep"

\* Variant of cycleReturn: after an error the loop continues without sleeping.
cycleReturnNoSleep(err) ==
    /\ cycleErr' = err
    /\ log' = IF err # Nil THEN Append(log, <<"error", err>>) ELSE log
    /\ pcLoop' = IF err # Nil THEN "WaitClientSynced" ELSE "Sleep"

\* stakePrelaunchMinipools returns err to line 37; a non-nil err is logged
\* (line 38) and the goroutine goes to sleep (line 40).
cycleReturn(err) ==
    /\ cycleErr' = err
    /\ log' = IF err # Nil THEN Append(log, <<"error", err>>) ELSE log
    /\ pcLoop' = "Sleep"

\* Variant of waitClientSynced: the error of the sync wait is not checked.
waitClientSyncedUnchecked ==
    /\ pcLoop = "WaitClientSynced"
    /\ gate' = gate \cup {"WaitClientSynced"}
    /\ \E err \in Results(Err("WaitClientSynced")) :
          failures' = IF err # Nil THEN failures \cup {err} ELSE failures
    /\ pcLoop' = "GetNodeAccount"
    /\ UNCHANGED <<extVars, ledger, startVars, aggVars, actVars, cycleErr, log>>

\* Lines 54-56.
waitClientSynced ==
    /\ pcLoop = "WaitClientSynced"
    /\ gate' = gate \cup {"WaitClientSynced"}
    /\ \E err \in Results(Err("WaitClientSynced")) :
          /\ failures' = IF err # Nil THEN failures \cup {err} ELSE failures
          /\ IF err # Nil
               THEN cycleReturn(err)
               ELSE pcLoop' = "GetNodeAccount" /\ UNCHANGED <<cycleErr, log>>
    /\ UNCHANGED <<extVars, ledger, startVars, aggVars, actVars>>

\* Lines 59-62.
getNodeAccount ==
    /\ pcLoop = "GetNodeAccount"
    /\ gate' = gate \cup {"GetNodeAccount"}
    /\ \E err \in Results(Err("GetNodeAccount")) :
          /\ failures' = IF err # Nil THEN failures \cup {err} ELSE failures
          /\ IF err # Nil
               THEN cycleReturn(err)
               ELSE pcLoop' = "GetNodeMinipoolAddresses" /\ UNCHANGED <<cycleErr, log>>
    /\ UNCHANGED <<extVars, ledger, startVars, aggVars, actVars>>

(***************************************************************************)
(* getPrelaunchMinipools (lines 90-138)                                    *)
(***************************************************************************)

\* A return statement of getPrelaunchMinipools: control is back at line 65.
aggReturn(list, err) ==
    /\ ret' = [returned |-> TRUE, minipools |-> list, err |-> err]
    /\ pcLoop' = "CheckResult"

\* Lines 93-99: list the node's minipool addresses.
getNodeMinipoolAddresses ==
    /\ pcLoop = "GetNodeMinipoolAddresses"
    /\ \E err \in Results(Err("GetNodeMinipoolAddresses")) :
          /\ failures' = IF err # Nil THEN failures \cup {err} ELSE failures
          /\ IF err # Nil
               THEN aggReturn(<<>>, err) /\ UNCHANGED addresses
               ELSE /\ addresses' = Indices(Len(ledger))
                    /\ pcLoop' = "NewMinipool"
                    /\ ret' = ret
    /\ minipools' = <<>>
    /\ UNCHANGED <<extVars, ledger, startVars, gate, q, statuses, wgErr, wgCount, writers,
                   recorded, actVars, cycleErr, log>>

\* Variant of newMinipool: an address whose contract cannot be bound is kept
\* and the loop goes on.
newMinipoolSkipFailed ==
    /\ pcLoop = "NewMinipool"
    /\ IF Len(minipools) < Len(addresses)
         THEN LET mi == Len(minipools) + 1 IN
              \E err \in Results(ErrAt("NewMinipool", mi)) :
                 /\ failures' = IF err # Nil THEN failures \cup {err} ELSE failures
                 /\ minipools' = Append(minipools, addresses[mi])
                 /\ UNCHANGED <<pcLoop, ret, q, statuses, wgErr, wgCount, writers,
                                recorded>>
         ELSE /\ statuses' = [i \in 1..Len(minipools) |-> ZeroStatus]
              /\ wgErr' = Nil
              /\ wgCount' = 0
              /\ writers' = NoWriters
              /\ recorded' = <<>>
              /\ q' = [i \in 1..MaxMinipools |-> NoQuery]
              /\ pcLoop' = "Go"
              /\ UNCHANGED <<minipools, ret, failures>>
    /\ UNCHANGED <<extVars, ledger, startVars, gate, addresses, actVars, cycleErr, log>>

\* Lines 100-110: bind one contract per address; a failure returns at once.
\* After the last one the errgroup and the statuses slice are created.
newMinipool ==
    /\ pcLoop = "NewMinipool"
    /\ IF Len(minipools) < Len(addresses)
         THEN LET mi == Len(minipools) + 1 IN
              \E err \in Results(ErrAt("NewMinipool", mi)) :
                 /\ failures' = IF err # Nil THEN failures \cup {err} ELSE failures
                 /\ IF err # Nil
                      THEN aggReturn(<<>>, err) /\ UNCHANGED minipools
                      ELSE /\ minipools' = Append(minipools, addresses[mi])
                           /\ UNCHANGED <<pcLoop, ret>>
                 /\ UNCHANGED <<q, statuses, wgErr, wgCount, writers, recorded>>
         ELSE /\ statuses' = [i \in 1..Len(minipools) |-> ZeroStatus]
              /\ wgErr' = Nil
              /\ wgCount' = 0
              /\ writers' = NoWriters
              /\ recorded' = <<>>
              /\ q' = [i \in 1..MaxMinipools |-> NoQuery]
              /\ pcLoop' = "Go"
              /\ UNCHANGED <<minipools, ret, failures>>
    /\ UNCHANGED <<extVars, ledger, startVars, gate, addresses, actVars, cycleErr, log>>

\* Number of goroutines started so far by the loop of line 113.
Launched == Cardinality({i \in 1..MaxMinipools : q[i].pc # "none"})

\* Lines 113-120: wg.Go adds one to the WaitGroup and starts the goroutine.
go ==
    /\ pcLoop = "Go"
    /\ IF Launched < Len(minipools)
         THEN /\ q' = [q EXCEPT ![Launched + 1].pc = "running"]
              /\ wgCount' = wgCount + 1
              /\ UNCHANGED pcLoop
         ELSE /\ pcLoop' = "Wait"
              /\ UNCHANGED <<q, wgCount>>
    /\ UNCHANGED <<extVars, ledger, startVars, gate, addresses, minipools, statuses, wgErr,
                   writers, recorded, ret, actVars, failures, cycleErr, log>>

\* Variant of slotOf: the goroutines share the variable of the range loop
\* and see the index the loop is at.
slotOfShared(mi) == Launched

\* Line 114: each goroutine gets its own copy of the loop index, which is
\* the slot it writes at line 117.
slotOf(mi) == mi

\* Lines 116-118, in the goroutine of minipool mi: GetStatus returns, and on
\* success the status is stored in the goroutine's own slot.
getStatus(mi) ==
    /\ q[mi].pc = "running"
    /\ \E err \in Results(ErrAt("GetStatus", mi)) :
          /\ failures' = IF err # Nil THEN failures \cup {err} ELSE failures
          /\ statuses' = IF err = Nil /\ slotOf(mi) \in DOMAIN statuses
                           THEN [statuses EXCEPT ![slotOf(mi)] = ledger[mi]]
                           ELSE statuses
          /\ writers' = IF err = Nil
                          THEN [writers EXCEPT ![slotOf(mi)] = Append(@, mi)]
                          ELSE writers
          /\ q' = [q EXCEPT ![mi] = [pc |-> "returning", err |-> err]]
    /\ UNCHANGED <<extVars, ledger, startVars, pcLoop, gate, addresses, minipools, wgErr,
                   wgCount, recorded, ret, actVars, cycleErr, log>>

\* Variant of keepErr: a later error replaces the one kept.
keepErrLast(kept, err) == IF err # Nil THEN err ELSE kept

\* errgroup.Group's errOnce: the error kept is the first non-nil one.
keepErr(kept, err) == IF err # Nil /\ kept = Nil THEN err ELSE kept

\* errgroup.Group.Go's wrapper around the function of line 115: the first
\* non-nil error is kept (sync.Once), then the WaitGroup is decremented.
queryDone(mi) ==
    /\ q[mi].pc = "returning"
    /\ wgErr' = keepErr(wgErr, q[mi].err)
    /\ recorded' = IF q[mi].err # Nil THEN Append(recorded, q[mi].err) ELSE recorded
    /\ wgCount' = wgCount - 1
    /\ q' = [q EXCEPT ![mi].pc = "done"]
    /\ UNCHANGED <<extVars, ledger, startVars, pcLoop, gate, addresses, minipools, statuses,
                   writers, ret, actVars, failures, cycleErr, log>>

\* Variant of waitReady: the join ends as soon as an error has been kept.
waitReadyFirstError == wgCount = 0 \/ wgErr # Nil

\* wg.Wait returns when the WaitGroup counter is zero.
waitReady == wgCount = 0

\* Lines 128-133: the range loop from index mi on, appending in order.
RECURSIVE filterFrom(_, _, _, _)
filterFrom(mps, sts, mi, acc) ==
    IF mi > Len(mps)
      THEN acc
      ELSE filterFrom(mps, sts, mi + 1,
                      IF sts[mi] = Prelaunch THEN Append(acc, mps[mi]) ELSE acc)

\* Variant of prelaunchMinipools: every minipool whose slot was written to a
\* status other than the zero value is kept.
prelaunchMinipoolsNonZero(mps, sts) ==
    SelectSeq(mps, LAMBDA mp : sts[mp] # ZeroStatus)

prelaunchMinipools(mps, sts) == filterFrom(mps, sts, 1, <<>>)

\* Variant of wait: the error is returned together with the filtered list.
waitPartial ==
    /\ pcLoop = "Wait"
    /\ wgCount = 0
    /\ aggReturn(prelaunchMinipools(minipools, statuses), wgErr)
    /\ UNCHANGED <<extVars, ledger, startVars, gate, addresses, minipools, q, statuses,
                   wgErr, wgCount, writers, recorded, actVars, failures, cycleErr,
                   log>>

\* Variant of wait: the value returned by wg.Wait is not checked.
waitUnchecked ==
    /\ pcLoop = "Wait"
    /\ wgCount = 0
    /\ pcLoop' = "Filter"
    /\ UNCHANGED <<extVars, ledger, startVars, gate, aggVars, actVars, failures,
                   cycleErr, log>>

\* Lines 123-125: join; the errgroup's error aborts the call.
wait ==
    /\ pcLoop = "Wait"
    /\ waitReady
    /\ IF wgErr # Nil
         THEN aggReturn(<<>>, wgErr)
         ELSE pcLoop' = "Filter" /\ ret' = ret
    /\ UNCHANGED <<extVars, ledger, startVars, gate, addresses, minipools, q, statuses,
                   wgErr, wgCount, writers, recorded, actVars, failures, cycleErr,
                   log>>

\* Variant of filter: the list of the previous successful call is returned
\* again instead of being computed from the statuses just read.
filterCached ==
    /\ pcLoop = "Filter"
    /\ aggReturn(IF prev.ok THEN prev.minipools
                            ELSE prelaunchMinipools(minipools, statuses), Nil)
    /\ UNCHANGED <<extVars, ledger, startVars, gate, addresses, minipools, q, statuses,
                   wgErr, wgCount, writers, recorded, actVars, failures, cycleErr,
                   log>>

\* Lines 127-136.
filter ==
    /\ pcLoop = "Filter"
    /\ aggReturn(prelaunchMinipools(minipools, statuses), Nil)
    /\ UNCHANGED <<extVars, ledger, startVars, gate, addresses, minipools, q, statuses,
                   wgErr, wgCount, writers, recorded, actVars, failures, cycleErr,
                   log>>

(***************************************************************************)
(* stakePrelaunchMinipools after the aggregation (lines 65-84)             *)
(***************************************************************************)

\* Variant of checkResult: the length of the list is not checked.
checkResultNoEmptyCheck ==
    /\ pcLoop = "CheckResult"
    /\ IF ret.err # Nil
         THEN cycleReturn(ret.err) /\ UNCHANGED di
         ELSE /\ log' = Append(log, <<"minipools are ready for staking", Len(ret.minipools)>>)
              /\ di' = 1
              /\ pcLoop' = "Dispatch"
              /\ UNCHANGED cycleErr
    /\ UNCHANGED <<extVars, ledger, startVars, gate, aggVars, staking, attempted, failures>>

\* Lines 65-74: an error or an empty list ends the cycle; otherwise the
\* count is logged and the range loop of line 77 starts.
checkResult ==
    /\ pcLoop = "CheckResult"
    /\ IF ret.err # Nil
         THEN cycleReturn(ret.err) /\ UNCHANGED di
         ELSE IF Len(ret.minipools) = 0
           THEN cycleReturn(Nil) /\ UNCHANGED di
           ELSE /\ log' = Append(log, <<"minipools are ready for staking", Len(ret.minipools)>>)
                /\ di' = 1
                /\ pcLoop' = "Dispatch"
                /\ UNCHANGED cycleErr
    /\ UNCHANGED <<extVars, ledger, startVars, gate, aggVars, staking, attempted, failures>>

\* Variant of dispatch: the calls for all elements are started together.
dispatchAll ==
    /\ pcLoop = "Dispatch"
    /\ IF di <= Len(ret.minipools)
         THEN /\ staking' = staking \cup Range(ret.minipools)
              /\ log' = Append(log, <<"Staking minipool", ret.minipools[di]>>)
              /\ pcLoop' = "stakeMinipool"
              /\ UNCHANGED cycleErr
         ELSE cycleReturn(Nil) /\ UNCHANGED staking
    /\ UNCHANGED <<extVars, ledger, startVars, gate, aggVars, di, attempted, failures>>

\* Variant of dispatch: the range loop stops before the last element.
dispatchSkipLast ==
    /\ pcLoop = "Dispatch"
    /\ IF di < Len(ret.minipools)
         THEN /\ staking' = staking \cup {ret.minipools[di]}
              /\ log' = Append(log, <<"Staking minipool", ret.minipools[di]>>)
              /\ pcLoop' = "stakeMinipool"
              /\ UNCHANGED cycleErr
         ELSE cycleReturn(Nil) /\ UNCHANGED staking
    /\ UNCHANGED <<extVars, ledger, startVars, gate, aggVars, di, attempted, failures>>

\* Lines 77-78 and 145: the range loop calls stakeMinipool for the next
\* element, or ends and the function returns nil (line 84).
dispatch ==
    /\ pcLoop = "Dispatch"
    /\ IF di <= Len(ret.minipools)
         THEN /\ staking' = staking \cup {ret.minipools[di]}
              /\ log' = Append(log, <<"Staking minipool", ret.minipools[di]>>)
              /\ pcLoop' = "stakeMinipool"
              /\ UNCHANGED cycleErr
         ELSE cycleReturn(Nil) /\ UNCHANGED staking
    /\ UNCHANGED <<extVars, ledger, startVars, gate, aggVars, di, attempted, failures>>

\* Variant of stakeResult: an error of stakeMinipool is returned at once.
stakeResultAbort(mp, err, lines) ==
    IF err # Nil
      THEN cycleReturn(err) /\ di' = di
      ELSE /\ log' = log \o lines
           /\ di' = di + 1
           /\ pcLoop' = "Dispatch"
           /\ cycleErr' = cycleErr

\* Lines 78-81: the result of stakeMinipool for mp is logged when it is an
\* error, and the range loop goes on with the next element.
stakeResult(mp, err, lines) ==
    /\ log' = IF err # Nil
                THEN Append(log \o lines, <<"Could not stake minipool", mp, err>>)
                ELSE log \o lines
    /\ di' = di + 1
    /\ pcLoop' = "Dispatch"
    /\ cycleErr' = cycleErr

\* Lines 147-154: stakeMinipool returns. The body is a stub that logs and
\* returns nil and leaves the ledger alone.
stakeMinipool ==
    /\ pcLoop = "stakeMinipool"
    /\ LET mp == ret.minipools[di] IN
       \E err \in stakeMinipoolResults :
          /\ staking' = staking \ {mp}
          /\ attempted' = Append(attempted, [mp |-> mp, err |-> err])
          /\ stakeResult(mp, err,
                IF err = Nil
                  THEN << <<"Minipool staking not implemented">>,
                          <<"Successfully staked minipool", mp>> >>
                  ELSE <<>>)
    /\ UNCHANGED <<extVars, ledger, startVars, gate, aggVars, failures>>

\* The next iteration starts: the locals of the last call are gone.
resetIteration ==
    /\ pcLoop' = "WaitClientSynced"
    /\ gate' = {}
    /\ addresses' = <<>>
    /\ minipools' = <<>>
    /\ q' = [i \in 1..MaxMinipools |-> NoQuery]
    /\ statuses' = <<>>
    /\ wgErr' = Nil
    /\ wgCount' = 0
    /\ writers' = NoWriters
    /\ recorded' = <<>>
    /\ ret' = NoRet
    /\ di' = 0
    /\ staking' = {}
    /\ attempted' = <<>>
    /\ failures' = {}
    /\ cycleErr' = Nil
    /\ log' = <<>>

\* Lines 40 and 36: the sleep ends and the next iteration calls
\* stakePrelaunchMinipools again.
sleepEnd ==
    /\ pcLoop = "Sleep"
    /\ resetIteration
    /\ UNCHANGED <<extVars, ledger, startVars>>

\* The minipools for which stakeMinipool returned nil in this iteration.
Staked == {attempted[k].mp : k \in {j \in 1..Len(attempted) : attempted[j].err = Nil}}

\* sleepEnd, with the outcome of the iteration that ends kept in prev: the
\* list getPrelaunchMinipools returned, the given set of staked minipools and
\* whether the ledger changed since. An iteration in which
\* getPrelaunchMinipools returned no list leaves nothing to compare with.
sleepEndRecorded(staked) ==
    /\ pcLoop = "Sleep"
    /\ resetIteration
    /\ prev' = IF ret.returned /\ ret.err = Nil
                 THEN [ok |-> TRUE, minipools |-> ret.minipools,
                       staked |-> staked, changed |-> changed]
                 ELSE NoPrev
    /\ changed' = FALSE
    /\ UNCHANGED <<installVars, ledger, startVars>>

\* The lifecycle order of the statuses.
NextStatus(st) == IF st = Initialized THEN Prelaunch ELSE Staking

\* A transaction issued elsewhere moves minipool mp one step forward in its
\* lifecycle. The model lets one land while the goroutine sleeps, that is
\* between two calls of getPrelaunchMinipools.
ledgerAdvance(mp) ==
    /\ pcLoop = "Sleep"
    /\ ~changed
    /\ mp \in 1..Len(ledger)
    /\ ledger[mp] # Staking
    /\ ledger' = [ledger EXCEPT ![mp] = NextStatus(@)]
    /\ changed' = TRUE
    /\ UNCHANGED <<installVars, prev, startVars, pcLoop, gate, aggVars, actVars,
                   failures, cycleErr, log>>

(***************************************************************************)
(* Specifications                                                          *)
(***************************************************************************)
Start == startWaitNodeRegistered \/ startGetAccountManager \/ startGetRocketPool
            \/ startGo \/ startReturn

Cycle == waitClientSynced \/ getNodeAccount \/ getNodeMinipoolAddresses
            \/ newMinipool \/ go \/ wait \/ filter \/ checkResult \/ dispatch
            \/ stakeMinipool

Loop == Cycle \/ sleepEnd

Query(mi) == getStatus(mi) \/ queryDone(mi)

Next == Start \/ Loop \/ \E mi \in 1..MaxMinipools : Query(mi)

Spec == Init /\ [][Next]_vars

\* Every collaborator call returns and the scheduler keeps running runnable
\* goroutines: some enabled step is eventually taken. The caller and the
\* status queries have finitely many steps between two steps of the loop, so
\* this is enough for the loop to be scheduled.
LiveSpec == Spec /\ WF_vars(Next)

\* The stake task with the list returned in each iteration recorded and
\* with the ledger changing between iterations.
HistNext ==
    \/ Start
    \/ Cycle
    \/ sleepEndRecorded({})
    \/ \E mi \in 1..MaxMinipools : Query(mi)
    \/ \E mp \in 1..MaxMinipools : ledgerAdvance(mp)

HistSpec == Init /\ [][HistNext]_vars

\* The same, with the minipools staked in each iteration recorded as well.
StakeHistNext ==
    \/ Start
    \/ Cycle
    \/ sleepEndRecorded(Staked)
    \/ \E mi \in 1..MaxMinipools : Query(mi)
    \/ \E mp \in 1..MaxMinipools : ledgerAdvance(mp)

StakeHistSpec == Init /\ [][StakeHistNext]_vars

(***************************************************************************)
(* Client.InstallService (shared/services/rocketpool/client.go 117-171)    *)
(*                                                                         *)
(* The goroutine that copies stdout (lines 144-149) shares no variable     *)
(* with the rest and is left out. The command writes its stderr lines and  *)
(* then exits; lines it wrote stay readable after it exited.               *)
(***************************************************************************)

MaxStderrLines == 2

StderrLines == {"warning", "fatal"}

\* What a command may write to stderr.
Scripts == UNION {[1..n -> StderrLines] : n \in 0..MaxStderrLines}

InstallFailed == "Could not install Rocket Pool service"

\* A string read while it was being written: neither the old nor the new value.
Torn == "<torn>"

SetupCalls == <<"getDownloader", "newCommand", "StdoutPipe", "StderrPipe">>

cmdVars == <<script, cmdState, stderrPipe, written>>
scanVars == <<scanPc, scanTok, errMessage, printed>>
mainVars == <<instPc, instResult, readEarly>>

\* Lines 120-141: the downloader, the command and its two pipes; the error of
\* any of the four calls is returned as it is.
installSetup ==
    /\ instPc = "setup"
    /\ \E err \in {Nil} \cup {Err(SetupCalls[k]) : k \in 1..Len(SetupCalls)} :
          IF err # Nil
            THEN instPc' = "returned" /\ instResult' = err
            ELSE instPc' = "go" /\ instResult' = instResult
    /\ UNCHANGED <<stakeVars, histVars, verbose, exitErr, cmdVars, scanVars, readEarly>>

\* Lines 152-162: errMessage is declared and the goroutine is started.
installGo ==
    /\ instPc = "go"
    /\ errMessage' = ""
    /\ scanPc' = "Scan"
    /\ instPc' = "Run"
    /\ UNCHANGED <<stakeVars, histVars, verbose, exitErr, cmdVars, scanTok, printed,
                   instResult, readEarly>>

\* Line 165: cmd.Run starts the command and waits for it.
runStart ==
    /\ instPc = "Run"
    /\ cmdState = "notStarted"
    /\ cmdState' = "running"
    /\ instPc' = "Running"
    /\ UNCHANGED <<stakeVars, histVars, verbose, exitErr, script, stderrPipe, written,
                   scanVars, instResult, readEarly>>

\* The command writes its next line to stderr.
cmdWrite ==
    /\ cmdState = "running"
    /\ script # <<>>
    /\ stderrPipe' = Append(stderrPipe, Head(script))
    /\ written' = Append(written, Head(script))
    /\ script' = Tail(script)
    /\ UNCHANGED <<stakeVars, histVars, verbose, exitErr, cmdState, scanVars, mainVars>>

\* The command has written everything and exits.
cmdExit ==
    /\ cmdState = "running"
    /\ script = <<>>
    /\ cmdState' = "exited"
    /\ UNCHANGED <<stakeVars, histVars, verbose, exitErr, script, stderrPipe, written,
                   scanVars, mainVars>>

\* Line 156: scanner.Scan returns true with the next line as its token.
scanNext ==
    /\ scanPc = "Scan"
    /\ stderrPipe # <<>>
    /\ scanTok' = Head(stderrPipe)
    /\ stderrPipe' = Tail(stderrPipe)
    /\ scanPc' = "Text"
    /\ UNCHANGED <<stakeVars, histVars, verbose, exitErr, script, cmdState, written,
                   errMessage, printed, mainVars>>

\* Line 156: scanner.Scan returns false at the end of the stream.
scanEOF ==
    /\ scanPc = "Scan"
    /\ stderrPipe = <<>>
    /\ cmdState = "exited"
    /\ scanPc' = "done"
    /\ UNCHANGED <<stakeVars, histVars, verbose, exitErr, cmdVars, scanTok, errMessage,
                   printed, mainVars>>

\* Line 157: the store to errMessage begins.
scanAssignBegin ==
    /\ scanPc = "Text"
    /\ scanPc' = "Writing"
    /\ UNCHANGED <<stakeVars, histVars, verbose, exitErr, cmdVars, scanTok, errMessage,
                   printed, mainVars>>

\* Lines 157-160: the store to errMessage is complete; the line is printed in
\* verbose mode.
scanAssignEnd ==
    /\ scanPc = "Writing"
    /\ errMessage' = scanTok
    /\ printed' = IF verbose THEN Append(printed, scanTok) ELSE printed
    /\ scanPc' = "Scan"
    /\ UNCHANGED <<stakeVars, histVars, verbose, exitErr, cmdVars, scanTok, mainVars>>

\* Line 165: cmd.Run returns once the command has exited.
runReturn ==
    /\ instPc = "Running"
    /\ cmdState = "exited"
    /\ instPc' = "check"
    /\ UNCHANGED <<stakeVars, histVars, verbose, exitErr, cmdVars, scanVars, instResult,
                   readEarly>>

\* What a read of errMessage yields: nothing orders it with the goroutine's
\* store, so a read during the store yields the old value, the new one or a
\* torn one.
readErrMessage ==
    IF scanPc = "Writing" THEN {errMessage, scanTok, Torn} ELSE {errMessage}

\* Lines 166-169: the error of cmd.Run is replaced by one that carries
\* errMessage as it is read now.
installReturn ==
    /\ instPc = "check"
    /\ IF exitErr
         THEN /\ \E msg \in readErrMessage : instResult' = <<InstallFailed, msg>>
              /\ readEarly' = (scanPc \in {"Text", "Writing"} \/ stderrPipe # <<>>)
         ELSE /\ instResult' = Nil
              /\ readEarly' = readEarly
    /\ instPc' = "returned"
    /\ UNCHANGED <<stakeVars, histVars, verbose, exitErr, cmdVars, scanVars>>

\* One call of InstallService, for every argument and every command.
InstallInit ==
    /\ ledger = <<>>
    /\ InitStake
    /\ \E v \in BOOLEAN, e \in BOOLEAN, lines \in Scripts :
          InitInstall("setup", v, e, lines)

InstallNext ==
    \/ installSetup
    \/ installGo
    \/ runStart
    \/ cmdWrite
    \/ cmdExit
    \/ scanNext
    \/ scanEOF
    \/ scanAssignBegin
    \/ scanAssignEnd
    \/ runReturn
    \/ installReturn

InstallSpec == InstallInit /\ [][InstallNext]_vars

(***************************************************************************)
(* Properties                                                              *)
(***************************************************************************)

\* Positions of the goroutine after getPrelaunchMinipools has passed wg.Wait.
PostJoin == {"Filter", "CheckResult", "Dispatch", "stakeMinipool", "Sleep"}

\* Positions of an iteration that come after the readiness calls succeeded.
AfterGate == {"GetNodeMinipoolAddresses", "NewMinipool", "Go", "Wait", "Filter",
              "CheckResult", "Dispatch", "stakeMinipool"}

StatusErrors == {ErrAt("GetStatus", mi) : mi \in 1..MaxMinipools}
ReadinessErrors == {Err("WaitClientSynced"), Err("GetNodeAccount")}
PreLaunchErrors == {Err("WaitNodeRegistered"), Err("GetAccountManager"),
                    Err("GetRocketPool")}

Logged(line) == \E k \in 1..Len(log) : log[k] = line
AttemptedMinipools == [k \in 1..Len(attempted) |-> attempted[k].mp]

\* The minipools that are Prelaunch on the ledger, in address-list order.
PrelaunchOnLedger ==
    SelectSeq(Indices(Len(ledger)), LAMBDA a : ledger[a] = Prelaunch)

\* C1 (all-or-nothing join): once getPrelaunchMinipools has returned, a failed
\* status query of that call means a non-nil error and an empty list, and an
\* error is never returned together with a non-empty list.
C1_AllOrNothing ==
    ret.returned =>
        /\ (failures \cap StatusErrors # {}) => (ret.err # Nil /\ ret.minipools = <<>>)
        /\ (ret.err # Nil) => (ret.minipools = <<>>)

\* C1 witness: the call returned after one query failed while another one
\* had stored Prelaunch in its slot.
C1_Witness ==
    /\ ret.returned
    /\ \E i \in 1..Len(statuses), j \in 1..Len(statuses) :
          /\ ErrAt("GetStatus", i) \in failures
          /\ statuses[j] = Prelaunch

\* C2 (filter exactness): when no call of the iteration failed, the call
\* returns nil and exactly the minipools that are Prelaunch on the ledger, in
\* address-list order (the empty list for a node without minipools).
C2_FilterExact ==
    (ret.returned /\ failures = {}) =>
        /\ ret.err = Nil
        /\ ret.minipools = PrelaunchOnLedger

\* C2 witness: a successful call over a ledger that holds a Prelaunch minipool
\* after a Staking one and an Initialized one.
C2_Witness ==
    /\ ret.returned
    /\ failures = {}
    /\ ledger = <<Staking, Prelaunch, Initialized>>
    /\ ret.minipools = <<2>>

C5_NoActionOnIncompleteView ==
    (failures # {}) =>
        /\ attempted = <<>>
        /\ staking = {}
        /\ pcLoop \notin {"Dispatch", "stakeMinipool"}

\* C5 witness: the iteration is over without any action although the query of
\* one minipool failed and another minipool reported Prelaunch.
C5_Witness ==
    /\ pcLoop = "Sleep"
    /\ attempted = <<>>
    /\ \E i \in 1..Len(statuses), j \in 1..Len(statuses) :
          /\ ErrAt("GetStatus", i) \in failures
          /\ statuses[j] = Prelaunch

\* C9 (serialized dispatch): at most one stakeMinipool call is in progress, it
\* is the call for element di of the filtered list, it started after the calls
\* for all earlier elements returned, and calls are made in list order.
C9_SerializedDispatch ==
    /\ Cardinality(staking) <= 1
    /\ (pcLoop = "stakeMinipool") =>
          /\ staking = {ret.minipools[di]}
          /\ AttemptedMinipools = SubSeq(ret.minipools, 1, di - 1)
    /\ (pcLoop # "stakeMinipool") => staking = {}
    /\ Len(attempted) <= Len(ret.minipools)
    /\ AttemptedMinipools = SubSeq(ret.minipools, 1, Len(attempted))

\* C9 witness: the call for the second element is in progress after the call
\* for the first one returned.
C9_Witness ==
    /\ pcLoop = "stakeMinipool"
    /\ di = 2
    /\ Len(attempted) = 1

\* C10 (full barrier): past wg.Wait, and whenever getPrelaunchMinipools has
\* returned, every status query that was launched has completed; so none is
\* running during filtering, dispatch or sleep.
C10_FullBarrier ==
    (pcLoop \in PostJoin \/ ret.returned) =>
        /\ \A mi \in 1..MaxMinipools : q[mi].pc \in {"none", "done"}
        /\ wgCount = 0

\* C10 witness: the call has returned the error of a failed query and the
\* query of another minipool, which succeeded, has completed as well.
C10_Witness ==
    /\ ret.returned
    /\ ret.err \in StatusErrors
    /\ \E mi \in 1..MaxMinipools : q[mi].pc = "done" /\ q[mi].err = Nil

\* C4 (liveness law): the goroutine, once started, never ends; a cycle that
\* fails at the readiness or the aggregation stage goes to the sleep, the sleep
\* is followed by a new cycle and by nothing else, and under fairness, unless
\* the goroutine is never started, the sleep and the start of a new cycle
\* both happen infinitely often.
C4_LivenessLaw ==
    /\ [][(pcLoop # "idle") => (pcLoop' \notin {"idle", "exited"})]_vars
    /\ [][(cycleErr = Nil /\ cycleErr' # Nil) => (pcLoop' = "Sleep")]_vars
    /\ [][(pcLoop = "Sleep" /\ pcLoop' # "Sleep") =>
             (pcLoop' = "WaitClientSynced" /\ cycleErr' = Nil)]_vars
    /\ [][(pcLoop \notin {"idle", "Sleep"} /\ pcLoop' = "WaitClientSynced") =>
             (pcLoop = "WaitClientSynced")]_vars
    /\ \/ <>[](pcLoop = "idle")
       \/ ([]<>(pcLoop = "Sleep") /\ []<>(pcLoop = "WaitClientSynced"))

\* C4 witness: an iteration after the first one has failed and is asleep.
C4_Witness ==
    /\ pcLoop = "Sleep"
    /\ cycleErr \in ReadinessErrors \cup StatusErrors
    /\ "WaitNodeRegistered" \notin gate

\* C6 as stated: an iteration has checked the registration of the node and
\* the sync of the client before it issues a discovery or status query.
C6_Original ==
    (pcLoop \in AfterGate \/ Launched > 0) =>
        {"WaitNodeRegistered", "WaitClientSynced"} \subseteq gate

\* C6 (amended): an iteration has waited for the client to sync and looked up
\* the node account before it issues a discovery or status query, the
\* registration having been checked once before the goroutine was started; a
\* failure of either readiness call is logged and the iteration goes to sleep
\* without any query.
C6_ReadinessBeforeQueries ==
    /\ (pcLoop \in AfterGate \/ Launched > 0 \/ ret.returned) =>
          {"WaitClientSynced", "GetNodeAccount"} \subseteq gate
    /\ (pcLoop # "idle") => ("WaitNodeRegistered" \in callerCalls)
    /\ (failures \cap ReadinessErrors # {}) =>
          /\ pcLoop = "Sleep"
          /\ cycleErr \in failures
          /\ log = << <<"error", cycleErr>> >>
          /\ ~ret.returned
          /\ addresses = <<>>
          /\ Launched = 0

\* C6 witness: an iteration after the first one is about to list the
\* addresses, the registration not having been checked again.
C6_Witness ==
    /\ pcLoop = "GetNodeMinipoolAddresses"
    /\ gate = {"WaitClientSynced", "GetNodeAccount"}

\* C7 as stated: the return of startStakePrelaunchMinipools never waits for
\* the goroutine and the caller has waited in no collaborator call.
C7_Original ==
    /\ (pcStart = "return") => ENABLED startReturn
    /\ callerCalls = {}

\* C7 (amended): the return never waits for the goroutine, and the only
\* collaborator calls the caller waits in are the three made before the go
\* statement.
C7_StartAsync ==
    /\ (pcStart = "return") => ENABLED startReturn
    /\ callerCalls \subseteq {"WaitNodeRegistered", "GetAccountManager", "GetRocketPool"}

\* C7 witness: startStakePrelaunchMinipools has returned nil while the first
\* cycle is still waiting for the client to sync.
C7_Witness ==
    /\ pcStart = "returned"
    /\ startResult = Nil
    /\ pcLoop = "WaitClientSynced"
    /\ "WaitNodeRegistered" \in gate

\* C8 as stated: startStakePrelaunchMinipools never returns an error of a
\* collaborator to its caller.
C8_Original == startResult \in {Pending, Nil}

\* C8 (amended): the value returned to the caller is nil or the error of one
\* of the three calls made before the go statement, in which case the
\* goroutine was not started; the error a cycle returns and the error of every
\* failed action are written to the log and never reach the caller.
C8_ErrorsEndInLog ==
    /\ startResult \in {Pending, Nil} \cup PreLaunchErrors
    /\ (startResult \in PreLaunchErrors) => (pcLoop = "idle")
    /\ (pcLoop = "Sleep" /\ failures # {}) =>
          (cycleErr \in failures /\ Logged(<<"error", cycleErr>>))
    /\ \A k \in 1..Len(attempted) :
          (attempted[k].err # Nil) =>
              Logged(<<"Could not stake minipool", attempted[k].mp, attempted[k].err>>)

\* C8 witness: the caller got nil and the error of the cycle is in the log.
C8_Witness ==
    /\ pcStart = "returned"
    /\ startResult = Nil
    /\ pcLoop = "Sleep"
    /\ cycleErr # Nil
    /\ Logged(<<"error", cycleErr>>)

\* C11 (exactly the filtered set, once each): an action is attempted only for
\* minipools that are Prelaunch on the ledger, for none of them twice, and a
\* cycle whose aggregation succeeded ends with exactly the Prelaunch minipools
\* attempted, in order.
C11_ExactlyOnce ==
    /\ \A k \in 1..Len(attempted) : ledger[attempted[k].mp] = Prelaunch
    /\ \A j \in 1..Len(attempted), k \in 1..Len(attempted) :
          (j # k) => (attempted[j].mp # attempted[k].mp)
    /\ \A mp \in staking :
          ledger[mp] = Prelaunch /\ mp \notin Range(AttemptedMinipools)
    /\ (pcLoop = "Sleep" /\ ret.returned /\ ret.err = Nil) =>
          AttemptedMinipools = PrelaunchOnLedger

\* C11 witness: with statuses [Prelaunch, Staking, Prelaunch] the cycle is over
\* and the action was attempted on the first and then on the third minipool.
C11_Witness ==
    /\ pcLoop = "Sleep"
    /\ ledger = <<Prelaunch, Staking, Prelaunch>>
    /\ AttemptedMinipools = <<1, 3>>

\* Positions in the log of the line of line 74.
CountLines ==
    {k \in 1..Len(log) : log[k][1] = "minipools are ready for staking"}

\* C13 (silence when there is nothing to do): a cycle whose filtered list is
\* empty logs nothing, attempts nothing, and returns nil into the sleep; the
\* count line is written at most once per cycle and only with a count above 0.
C13_SilentWhenEmpty ==
    /\ (ret.returned /\ ret.err = Nil /\ ret.minipools = <<>>) =>
          /\ pcLoop \in {"CheckResult", "Sleep"}
          /\ log = <<>>
          /\ attempted = <<>>
          /\ staking = {}
          /\ cycleErr = Nil
    /\ Cardinality(CountLines) <= 1
    /\ \A k \in CountLines :
          /\ log[k][2] > 0
          /\ ret.returned /\ ret.err = Nil
          /\ log[k][2] = Len(ret.minipools)

\* C13 witness: the node has minipools, none of them Prelaunch, and the cycle
\* went to sleep without a log line.
C13_Witness ==
    /\ pcLoop = "Sleep"
    /\ ret.returned /\ ret.err = Nil /\ ret.minipools = <<>>
    /\ Len(ledger) >= 2
    /\ log = <<>>

\* Positions of the goroutine inside a call of stakePrelaunchMinipools.
InCycle == {"WaitClientSynced", "GetNodeAccount"} \cup AfterGate

\* C16 (cadence): a cycle, whatever its outcome, ends in the sleep and nowhere
\* else; while the goroutine sleeps nothing of the cycle is still in progress;
\* a cycle starts only from the go statement or from the end of a sleep, and
\* the end of a sleep starts exactly one fresh cycle.
C16_Cadence ==
    /\ [][(pcLoop \in InCycle /\ pcLoop' \notin InCycle) => (pcLoop' = "Sleep")]_vars
    /\ [](pcLoop = "Sleep" =>
             /\ staking = {}
             /\ wgCount = 0
             /\ \A mi \in 1..MaxMinipools : q[mi].pc \in {"none", "done"})
    /\ [][(pcLoop # "WaitClientSynced" /\ pcLoop' = "WaitClientSynced") =>
             (pcLoop \in {"idle", "Sleep"})]_vars
    /\ [][(pcLoop = "Sleep" /\ pcLoop' # "Sleep") =>
             (pcLoop' = "WaitClientSynced" /\ ~ret'.returned /\ attempted' = <<>>
                /\ gate' = {})]_vars

\* C16 witness: a cycle after the first one has dispatched and is asleep.
C16_Witness ==
    /\ pcLoop = "Sleep"
    /\ Len(attempted) >= 1
    /\ "WaitNodeRegistered" \notin gate

DiscoveryErrors ==
    {Err("GetNodeMinipoolAddresses")}
        \cup {ErrAt("NewMinipool", mi) : mi \in 1..MaxMinipools}

\* C18 (discovery failure aborts before the fan-out): when listing the
\* addresses or binding a contract fails, the call returns that error with an
\* empty list and no status query is launched in that call.
C18_DiscoveryAborts ==
    (failures \cap DiscoveryErrors # {}) =>
        /\ ret.returned
        /\ ret.err \in failures \cap DiscoveryErrors
        /\ ret.minipools = <<>>
        /\ Launched = 0
        /\ wgCount = 0
        /\ failures \cap StatusErrors = {}

\* C18 witness: the second contract could not be bound after the first one
\* was, and the call has returned.
C18_Witness ==
    /\ ret.returned
    /\ ret.err = ErrAt("NewMinipool", 2)
    /\ Len(minipools) = 1

\* C19 (failed start): when one of the three calls before the go statement
\* fails, its error is returned and the goroutine never runs: no readiness
\* call of a cycle, no query, no action, no log line; the goroutine is started
\* only by the go statement, after all three calls succeeded, and once.
C19_FailedStartNeverLoops ==
    /\ [](startResult \in PreLaunchErrors =>
             /\ pcStart = "returned"
             /\ pcLoop = "idle"
             /\ gate \subseteq {"WaitNodeRegistered"}
             /\ Launched = 0 /\ ~ret.returned
             /\ attempted = <<>> /\ staking = {} /\ log = <<>>)
    /\ [](pcLoop # "idle" =>
             /\ callerCalls = {"WaitNodeRegistered", "GetAccountManager", "GetRocketPool"}
             /\ startResult \in {Pending, Nil})
    /\ [][(pcLoop = "idle" /\ pcLoop' # "idle") =>
             (pcStart = "go" /\ pcStart' = "return")]_vars
    /\ [][(pcStart \in {"return", "returned"}) =>
             (pcStart' \in {"return", "returned"})]_vars
    /\ [][(startResult # Pending) => (startResult' = startResult)]_vars

\* C19 witness: GetRocketPool failed after the two calls before it succeeded.
C19_Witness ==
    /\ pcStart = "returned"
    /\ startResult = Err("GetRocketPool")
    /\ pcLoop = "idle"

\* C15 (write-once result slots): a slot of statuses is written at most once,
\* only by the goroutine of its own minipool and only when that goroutine's
\* query succeeded; a slot whose query failed keeps the zero value; and at the
\* filter, which reads the slots, no query is still running.
C15_WriteOnceSlots ==
    /\ \A slot \in 1..MaxMinipools :
          /\ Len(writers[slot]) <= 1
          /\ \A k \in 1..Len(writers[slot]) : writers[slot][k] = slot
          /\ (writers[slot] # <<>>) =>
                (q[slot].pc \in {"returning", "done"} /\ q[slot].err = Nil)
          /\ (q[slot].pc \in {"returning", "done"} /\ q[slot].err # Nil) =>
                (writers[slot] = <<>> /\ statuses[slot] = ZeroStatus)
    /\ (pcLoop = "Filter") =>
          \A mi \in 1..MaxMinipools : q[mi].pc \in {"none", "done"}

\* C15 witness: the filter is about to read three slots, each written once by
\* its own goroutine.
C15_Witness ==
    /\ pcLoop = "Filter"
    /\ Len(statuses) = 3
    /\ \A slot \in 1..3 : writers[slot] = <<slot>>

\* C17 (first error wins): the error getPrelaunchMinipools returns after the
\* join is the first one handed to the errgroup, whatever failed later, and it
\* is the error of a status query of this call.
C17_FirstErrorWins ==
    /\ (ret.returned /\ recorded # <<>>) => (ret.err = recorded[1])
    /\ (ret.returned /\ ret.err \in StatusErrors) =>
          /\ recorded # <<>>
          /\ ret.err = recorded[1]
          /\ ret.err \in failures
    /\ \A k \in 1..Len(recorded) : recorded[k] \in failures \cap StatusErrors

\* C17 witness: two queries failed, the one of the second minipool was
\* recorded first and its error was returned.
C17_Witness ==
    /\ ret.returned
    /\ Len(recorded) >= 2
    /\ recorded[1] = ErrAt("GetStatus", 2)
    /\ recorded[2] = ErrAt("GetStatus", 1)
    /\ ret.err = ErrAt("GetStatus", 2)

(***************************************************************************)
(* Properties over successive iterations (HistSpec)                        *)
(***************************************************************************)

\* getPrelaunchMinipools returned a list, and the ledger is still as the
\* call read it.
ReturnedList == ret.returned /\ ret.err = Nil /\ ~changed

\* C12 (a successful action advances the status): a minipool for which
\* stakeMinipool returned nil in the previous iteration is seen with the next
\* status (Staking) by the next successful call of getPrelaunchMinipools, and
\* so is not in the list that call returns.
C12_SuccessAdvancesStatus ==
    ReturnedList =>
        \A mp \in prev.staked :
            /\ statuses[mp] = NextStatus(Prelaunch)
            /\ mp \notin Range(ret.minipools)

\* C14 (idempotence, no caching): a successful call of getPrelaunchMinipools
\* has re-issued the discovery call and completed one status query for every
\* minipool of the ledger, each slot holding the status read in this call;
\* its list is the Prelaunch minipools of the ledger as it is now, whatever
\* the previous iteration returned or staked; and when the ledger did not
\* change since the previous successful call the two lists are equal.
C14_NoCaching ==
    ReturnedList =>
        /\ addresses = Indices(Len(ledger))
        /\ \A mi \in 1..Len(ledger) :
              /\ q[mi].pc = "done"
              /\ writers[mi] = <<mi>>
              /\ statuses[mi] = ledger[mi]
        /\ ret.minipools = PrelaunchOnLedger
        /\ (prev.ok /\ ~prev.changed) => ret.minipools = prev.minipools

\* Two successive successful calls over an unchanged ledger return the same
\* non-empty list.
C14_Witness ==
    /\ ReturnedList
    /\ pcLoop = "CheckResult"
    /\ prev.ok /\ ~prev.changed
    /\ ret.minipools = prev.minipools
    /\ ret.minipools # <<>>

(***************************************************************************)
(* Properties of InstallService (InstallSpec)                              *)
(***************************************************************************)

\* C20 (the install error carries the last stderr line): when InstallService
\* has returned the error of a failed command, errMessage was read after the
\* goroutine's last store to it, and the message is the last line the
\* command wrote to stderr.
C20_ErrorCarriesLastLine ==
    (instPc = "returned" /\ Len(instResult) = 2) =>
        /\ instResult[1] = InstallFailed
        /\ ~readEarly
        /\ (written # <<>>) => instResult[2] = written[Len(written)]

====
